---- MODULE Spec2Model ----
(***************************************************************************)
(* The hospital-resident game (matching/games/hospital_resident.py).       *)
(*                                                                         *)
(* Players are numbered: residents 1..NumResidents, hospitals              *)
(* 1..NumHospitals, each party in its own namespace.  A party of the game  *)
(* (self.residents, self.hospitals) is the set of its players' numbers;    *)
(* the list order of a party is the ascending order of the numbers.  A     *)
(* preference list is a sequence of numbers of the other party.            *)
(***************************************************************************)
EXTENDS Integers, Sequences, FiniteSets, TLC

\* ------------------------------------------------------------------ bounds
\* players of a solved game
NumResidents == 3
NumHospitals == 2
MaxCapacity == 2
\* players and list lengths of the raw input of the constructor
NumRawResidents == 2
MaxPrefLen == 2

AllResidents == 1..NumResidents
AllHospitals == 1..NumHospitals
RawResidents == {r \in AllResidents : r <= NumRawResidents}

\* resident.matching of an unmatched resident (None)
None == 0

VARIABLES
    pc,             \* position of the caller: "new", "constructed", "checked",
                    \* "solving", "solved", "assigned"
    clean,          \* self.clean
    residents,      \* self.residents
    hospitals,      \* self.hospitals
    prefs,          \* player.prefs, prefs[party][player]
    capacity,       \* hospital.capacity
    given,          \* the deep copy of the constructor's arguments, before check_inputs
    warnings,       \* warnings emitted by the last run of check_inputs
    optimal,        \* the argument of solve
    running,        \* the orientation the algorithm runs in
    remaining,      \* the proposers' remaining preference lists
    rmatching,      \* resident.matching
    hmatching,      \* hospital.matching
    matching,       \* self.matching, <<>> while it is None
    blocking_pairs, \* self.blocking_pairs, <<>> while it is None
    stable,         \* what the last check_stability returned
    validity        \* what the last check_validity returned or raised

vars == <<pc, clean, residents, hospitals, prefs, capacity, given, warnings,
          optimal, running, remaining, rmatching, hmatching, matching,
          blocking_pairs, stable, validity>>

\* ------------------------------------------------------------- list helpers
\* Python's "x in s"
Contains(s, x) == \E i \in DOMAIN s : s[i] = x

\* Python's s.index(x)
index(s, x) == CHOOSE i \in DOMAIN s : s[i] = x /\ \A j \in 1..(i - 1) : s[j] # x

\* Python's s.remove(x) on a copy: drop the first occurrence of x
remove(s, x) ==
    LET i == index(s, x)
    IN  SubSeq(s, 1, i - 1) \o SubSeq(s, i + 1, Len(s))

RECURSIVE Sorted(_)
Sorted(S) ==
    IF S = {} THEN <<>>
    ELSE LET m == CHOOSE x \in S : \A y \in S : x <= y
         IN  <<m>> \o Sorted(S \ {m})

Range(s) == {s[i] : i \in DOMAIN s}

RECURSIVE SeqsUpTo(_, _)
SeqsUpTo(S, n) ==
    IF n = 0 THEN {<<>>}
    ELSE LET shorter == SeqsUpTo(S, n - 1)
         IN  shorter \cup {Append(s, x) : s \in {t \in shorter : Len(t) = n - 1}, x \in S}

NoDuplicates(s) == \A i, j \in DOMAIN s : s[i] = s[j] => i = j

\* the lists over S without duplicates
Rankings(S) == {s \in SeqsUpTo(S, Cardinality(S)) : NoDuplicates(s)}

\* --------------------------------------------------------------- the game
other_party(party) == IF party = "residents" THEN "hospitals" ELSE "residents"

Game == [clean |-> clean, residents |-> residents, hospitals |-> hospitals,
         prefs |-> prefs, capacity |-> capacity, warnings |-> warnings]

warn(g, w) == [g EXCEPT !.warnings = @ \cup {w}]

\* Player._forget
_forget(g, party, player, other) ==
    [g EXCEPT !.prefs[party][player] = remove(@, other)]

RECURSIVE forget_from_all(_, _, _, _)
forget_from_all(g, others, other_p, player) ==
    IF others = <<>> THEN g
    ELSE LET other == Head(others)
             g1 == IF Contains(g.prefs[other_p][other], player)
                   THEN _forget(g, other_p, other, player)
                   ELSE g
         IN  forget_from_all(g1, Tail(others), other_p, player)

\* BaseGame._remove_player
_remove_player(g, player, party, other_p) ==
    forget_from_all([g EXCEPT ![party] = @ \ {player}],
                    Sorted(g[other_p]), other_p, player)

RECURSIVE unique_prefs(_)
unique_prefs(s) ==
    IF s = <<>> THEN <<>>
    ELSE LET front == unique_prefs(SubSeq(s, 1, Len(s) - 1))
             last == s[Len(s)]
         IN  IF Contains(front, last) THEN front ELSE Append(front, last)

RECURSIVE unique_loop(_, _, _)
unique_loop(g, party, players) ==
    IF players = <<>> THEN g
    ELSE LET player == Head(players)
             old == g.prefs[party][player]
             g1 == IF NoDuplicates(old) THEN g
                   ELSE warn(IF g.clean
                             THEN [g EXCEPT !.prefs[party][player] = unique_prefs(old)]
                             ELSE g,
                             [check |-> "unique", party |-> party, player |-> player])
         IN  unique_loop(g1, party, Tail(players))

\* BaseGame._check_inputs_player_prefs_unique
_check_inputs_player_prefs_unique(g, party) ==
    unique_loop(g, party, Sorted(g[party]))

RECURSIVE all_in_party_others(_, _, _, _)
all_in_party_others(g, party, player, others) ==
    IF others = <<>> THEN g
    ELSE LET other == Head(others)
             g1 == IF other \notin g[other_party(party)]
                   THEN warn(IF g.clean THEN _forget(g, party, player, other) ELSE g,
                             [check |-> "all_in_party", party |-> party, player |-> player])
                   ELSE g
         IN  all_in_party_others(g1, party, player, Tail(others))

RECURSIVE all_in_party_loop(_, _, _)
all_in_party_loop(g, party, players) ==
    IF players = <<>> THEN g
    ELSE LET player == Head(players)
         IN  all_in_party_loop(
                 all_in_party_others(g, party, player, g.prefs[party][player]),
                 party, Tail(players))

\* BaseGame._check_inputs_player_prefs_all_in_party
_check_inputs_player_prefs_all_in_party(g, party, other_p) ==
    all_in_party_loop(g, party, Sorted(g[party]))

RECURSIVE nonempty_loop(_, _, _)
nonempty_loop(g, party, players) ==
    IF players = <<>> THEN g
    ELSE LET player == Head(players)
             g1 == IF g.prefs[party][player] = <<>>
                   THEN warn(g, [check |-> "nonempty", party |-> party, player |-> player])
                   ELSE g
         IN  nonempty_loop(g1, party, Tail(players))

\* BaseGame._check_inputs_player_prefs_nonempty
_check_inputs_player_prefs_nonempty(g, party, other_p) ==
    nonempty_loop(g, party, Sorted(g[party]))

RECURSIVE all_reciprocated_others(_, _, _, _)
all_reciprocated_others(g, party, player, others) ==
    IF others = <<>> THEN g
    ELSE LET other == Head(others)
             g1 == IF ~Contains(g.prefs[other_party(party)][other], player)
                   THEN warn(IF g.clean THEN _forget(g, party, player, other) ELSE g,
                             [check |-> "all_reciprocated", party |-> party, player |-> player])
                   ELSE g
         IN  all_reciprocated_others(g1, party, player, Tail(others))

RECURSIVE all_reciprocated_loop(_, _, _)
all_reciprocated_loop(g, party, players) ==
    IF players = <<>> THEN g
    ELSE LET player == Head(players)
         IN  all_reciprocated_loop(
                 all_reciprocated_others(g, party, player, g.prefs[party][player]),
                 party, Tail(players))

\* as the check below, forgetting without regard to self.clean
all_reciprocated_unguarded(g, party) ==
    LET h == all_reciprocated_loop([g EXCEPT !.clean = TRUE], party, Sorted(g[party]))
    IN  [h EXCEPT !.clean = g.clean]

\* HospitalResident._check_inputs_player_prefs_all_reciprocated
_check_inputs_player_prefs_all_reciprocated(g, party) ==
    all_reciprocated_loop(g, party, Sorted(g[party]))

RECURSIVE reciprocated_all_others(_, _, _, _, _)
reciprocated_all_others(g, party, other_p, player, others_that_ranked) ==
    IF others_that_ranked = <<>> THEN g
    ELSE LET other == Head(others_that_ranked)
             g1 == IF ~Contains(g.prefs[party][player], other)
                   THEN warn(IF g.clean THEN _forget(g, other_p, other, player) ELSE g,
                             [check |-> "reciprocated_all", party |-> other_p, player |-> other])
                   ELSE g
         IN  reciprocated_all_others(g1, party, other_p, player, Tail(others_that_ranked))

RECURSIVE reciprocated_all_loop(_, _, _, _)
reciprocated_all_loop(g, party, other_p, players) ==
    IF players = <<>> THEN g
    ELSE LET player == Head(players)
             others_that_ranked ==
                 SelectSeq(Sorted(g[other_p]),
                           LAMBDA other : Contains(g.prefs[other_p][other], player))
         IN  reciprocated_all_loop(
                 reciprocated_all_others(g, party, other_p, player, others_that_ranked),
                 party, other_p, Tail(players))

\* as the check below, warning without forgetting
reciprocated_all_warn_only(g, party, other_p) ==
    LET h == reciprocated_all_loop([g EXCEPT !.clean = FALSE], party, other_p, Sorted(g[party]))
    IN  [h EXCEPT !.clean = g.clean]

\* HospitalResident._check_inputs_player_reciprocated_all_prefs
_check_inputs_player_reciprocated_all_prefs(g, party, other_p) ==
    reciprocated_all_loop(g, party, other_p, Sorted(g[party]))

RECURSIVE capacity_loop(_, _, _, _)
capacity_loop(g, party, other_p, players) ==
    IF players = <<>> THEN g
    ELSE LET player == Head(players)
             g1 == IF g.capacity[player] < 1
                   THEN warn(IF g.clean THEN _remove_player(g, player, party, other_p) ELSE g,
                             [check |-> "capacity", party |-> party, player |-> player])
                   ELSE g
         IN  capacity_loop(g1, party, other_p, Tail(players))

\* as the check below, leaving the loop after the first player it removes
capacity_first_only(g, party, other_p) ==
    LET low == {p \in g[party] : g.capacity[p] < 1}
    IN  IF g.clean /\ low # {}
        THEN capacity_loop(g, party, other_p, <<Head(Sorted(low))>>)
        ELSE capacity_loop(g, party, other_p, Sorted(g[party]))

\* HospitalResident._check_inputs_player_capacity
_check_inputs_player_capacity(g, party, other_p) ==
    capacity_loop(g, party, other_p, Sorted(g[party]))

\* The state of check_inputs after its first k checks, in the order of the source.
check_inputs_upto(g, k) ==
    LET g0 == [g EXCEPT !.warnings = {}]
        g1 == _check_inputs_player_prefs_unique(g0, "residents")
        g2 == _check_inputs_player_prefs_unique(g1, "hospitals")
        g3 == _check_inputs_player_prefs_all_in_party(g2, "residents", "hospitals")
        g4 == _check_inputs_player_prefs_all_in_party(g3, "hospitals", "residents")
        g5 == _check_inputs_player_prefs_all_reciprocated(g4, "hospitals")
        g6 == _check_inputs_player_reciprocated_all_prefs(g5, "hospitals", "residents")
        g7 == _check_inputs_player_prefs_nonempty(g6, "residents", "hospitals")
        g8 == _check_inputs_player_prefs_nonempty(g7, "hospitals", "residents")
        g9 == _check_inputs_player_capacity(g8, "hospitals", "residents")
    IN  CASE k = 0 -> g0 [] k = 1 -> g1 [] k = 2 -> g2 [] k = 3 -> g3
          [] k = 4 -> g4 [] k = 5 -> g5 [] k = 6 -> g6 [] k = 7 -> g7
          [] k = 8 -> g8 [] OTHER -> g9

\* HospitalResident.check_inputs
check_inputs(g) == check_inputs_upto(g, 9)

\* ------------------------------------------------- construction: raw input
NoMatching == [residents |-> [r \in AllResidents |-> None],
               hospitals |-> [h \in AllHospitals |-> <<>>]]

NotChecked == [outcome |-> "None", unacceptable_matches |-> <<>>,
               oversubscribed_hospitals |-> <<>>]

Idle ==
    /\ optimal = "None"
    /\ running = "None"
    /\ remaining = <<>>
    /\ rmatching = NoMatching.residents
    /\ hmatching = NoMatching.hospitals
    /\ matching = <<>>
    /\ blocking_pairs = <<>>
    /\ stable = "None"
    /\ validity = NotChecked

\* Arguments of the constructor: any lists within the bounds, with duplicates,
\* entries outside the other party, one-sided rankings, capacities below one
\* and empty lists.  A player outside the game ranks nobody.
InitInputs ==
    /\ pc = "new"
    /\ clean \in BOOLEAN
    /\ residents \in SUBSET RawResidents
    /\ hospitals \in SUBSET AllHospitals
    /\ prefs \in [residents : [AllResidents -> SeqsUpTo(AllHospitals, MaxPrefLen)],
                  hospitals : [AllHospitals -> SeqsUpTo(RawResidents, MaxPrefLen)]]
    /\ \A r \in AllResidents \ residents : prefs.residents[r] = <<>>
    /\ \A h \in AllHospitals \ hospitals : prefs.hospitals[h] = <<>>
    /\ capacity \in [AllHospitals -> 0..MaxCapacity]
    /\ \A h \in AllHospitals \ hospitals : capacity[h] = 1
    /\ warnings = {}
    /\ given = Game
    /\ Idle

UnchangedMatching ==
    UNCHANGED <<optimal, running, remaining, rmatching, hmatching, matching,
                blocking_pairs, stable, validity>>

\* HospitalResident.__init__ : copy, then check_inputs
New ==
    /\ pc = "new"
    /\ LET g == check_inputs(Game)
       IN  /\ residents' = g.residents
           /\ hospitals' = g.hospitals
           /\ prefs' = g.prefs
           /\ capacity' = g.capacity
           /\ warnings' = g.warnings
    /\ pc' = "constructed"
    /\ UNCHANGED <<clean, given>>
    /\ UnchangedMatching

\* A further call of check_inputs on the constructed game
CheckInputsAgain ==
    /\ pc = "constructed"
    /\ LET g == check_inputs(Game)
       IN  /\ residents' = g.residents
           /\ hospitals' = g.hospitals
           /\ prefs' = g.prefs
           /\ capacity' = g.capacity
           /\ warnings' = g.warnings
    /\ pc' = "checked"
    /\ UNCHANGED <<clean, given>>
    /\ UnchangedMatching

NextInputs == New \/ CheckInputsAgain

SpecInputs == InitInputs /\ [][NextInputs]_vars

\* ------------------------------------------------- claims on check_inputs
Parties == {"residents", "hospitals"}

NotCleanUnmodified ==
    (pc # "new" /\ ~clean)
        => /\ residents = given.residents
           /\ hospitals = given.hospitals
           /\ capacity = given.capacity
           /\ prefs = given.prefs

\* a game built with clean = false from an input with every kind of defect
NotCleanUnmodifiedWitness ==
    /\ pc = "constructed" /\ ~clean
    /\ {w.check : w \in warnings} =
         {"unique", "all_in_party", "all_reciprocated", "reciprocated_all",
          "nonempty", "capacity"}

\* the game as the two reciprocity checks find it and as they leave it
BeforeReciprocity == check_inputs_upto(given, 4)
AfterReciprocity == check_inputs_upto(given, 6)

RanksBack(g, party, player, other) ==
    Contains(g.prefs[other_party(party)][other], player)

\* C9: after construction with clean = true, h is in r's list iff r is in h's
\* list for all remaining r and h; and the two reciprocity checks leave every
\* list as it was, less exactly the entries that did not rank its owner back.
CleanReciprocated ==
    (pc = "constructed" /\ clean)
        => /\ \A r \in residents, h \in hospitals :
                Contains(prefs.residents[r], h) <=> Contains(prefs.hospitals[h], r)
           /\ \A party \in Parties : \A player \in BeforeReciprocity[party] :
                AfterReciprocity.prefs[party][player] =
                    SelectSeq(BeforeReciprocity.prefs[party][player],
                              LAMBDA other : RanksBack(BeforeReciprocity, party, player, other))

\* a cleaned game in which both reciprocity checks removed an entry and a
\* mutual ranking survived
CleanReciprocatedWitness ==
    /\ pc = "constructed" /\ clean
    /\ \E r \in residents :
          Len(AfterReciprocity.prefs.residents[r]) < Len(BeforeReciprocity.prefs.residents[r])
    /\ \E h \in hospitals :
          Len(AfterReciprocity.prefs.hospitals[h]) < Len(BeforeReciprocity.prefs.hospitals[h])
    /\ \E r \in residents, h \in hospitals :
          Contains(prefs.residents[r], h) /\ Contains(prefs.hospitals[h], r)

\* C10: in clean mode every player of the game whose list is empty when
\* check_inputs returns was reported by the empty-list check of that run.
EmptyListsReported ==
    (pc = "constructed" /\ clean)
        => \A party \in Parties : \A player \in Game[party] :
             prefs[party][player] = <<>>
                => [check |-> "nonempty", party |-> party, player |-> player] \in warnings

\* ------------------------------------------------------ the two verdicts
\* Player.prefers
prefers(s, player, other) == index(s, player) < index(s, other)

\* _check_mutual_preference
_check_mutual_preference(resident, hospital) ==
    /\ Contains(prefs.hospitals[hospital], resident)
    /\ Contains(prefs.residents[resident], hospital)

\* as the check below, with the arguments of prefers exchanged
resident_unhappy_reversed(rm, resident, hospital) ==
    \/ rm[resident] = None
    \/ prefers(prefs.residents[resident], rm[resident], hospital)

\* _check_resident_unhappy, rm the residents' matching attributes
_check_resident_unhappy(rm, resident, hospital) ==
    \/ rm[resident] = None
    \/ prefers(prefs.residents[resident], hospital, rm[resident])

\* as the check below, with <= for <
hospital_unhappy_or_full(hm, resident, hospital) ==
    \/ Len(hm[hospital]) <= capacity[hospital]
    \/ \E i \in DOMAIN hm[hospital] :
          prefers(prefs.hospitals[hospital], resident, hm[hospital][i])

\* _check_hospital_unhappy, hm the hospitals' matching attributes
_check_hospital_unhappy(hm, resident, hospital) ==
    \/ Len(hm[hospital]) < capacity[hospital]
    \/ \E i \in DOMAIN hm[hospital] :
          prefers(prefs.hospitals[hospital], resident, hm[hospital][i])

RECURSIVE stability_hospitals(_, _, _, _)
stability_hospitals(rm, hm, resident, hs) ==
    IF hs = <<>> THEN <<>>
    ELSE LET hospital == Head(hs)
             found == IF /\ _check_mutual_preference(resident, hospital)
                         /\ _check_resident_unhappy(rm, resident, hospital)
                         /\ _check_hospital_unhappy(hm, resident, hospital)
                      THEN << <<resident, hospital>> >>
                      ELSE <<>>
         IN  found \o stability_hospitals(rm, hm, resident, Tail(hs))

RECURSIVE stability_residents(_, _, _)
stability_residents(rm, hm, rs) ==
    IF rs = <<>> THEN <<>>
    ELSE stability_hospitals(rm, hm, Head(rs), Sorted(hospitals))
            \o stability_residents(rm, hm, Tail(rs))

\* Python's any() of a list of tuples: a tuple is true when it is not empty
any(s) == \E i \in DOMAIN s : Len(s[i]) > 0

\* prefers is defined on ranked players only: every match is ranked by its holder
MatchesRanked ==
    /\ \A r \in residents :
          rmatching[r] # None => Contains(prefs.residents[r], rmatching[r])
    /\ \A h \in hospitals : \A i \in DOMAIN hmatching[h] :
          Contains(prefs.hospitals[h], hmatching[h][i])

\* HospitalResident.check_stability
check_stability ==
    /\ pc \in {"solved", "assigned"}
    /\ MatchesRanked
    /\ blocking_pairs' = stability_residents(rmatching, hmatching, Sorted(residents))
    /\ stable' = IF any(blocking_pairs') THEN "False" ELSE "True"
    /\ UNCHANGED <<pc, clean, residents, hospitals, prefs, capacity, given, warnings,
                   optimal, running, remaining, rmatching, hmatching, matching, validity>>

NoIssue == [type |-> "NoneType"]

\* Player.check_if_match_is_unacceptable
resident_check_if_match_is_unacceptable(resident, unmatched_okay) ==
    LET other == rmatching[resident]
    IN  IF other = None
        THEN IF unmatched_okay THEN NoIssue
             ELSE [type |-> "str", party |-> "residents", player |-> resident, other |-> None]
        ELSE IF ~Contains(prefs.residents[resident], other)
             THEN [type |-> "str", party |-> "residents", player |-> resident, other |-> other]
             ELSE NoIssue

\* Hospital.check_if_match_is_unacceptable
hospital_check_if_match_is_unacceptable(hospital) ==
    LET unranked == SelectSeq(hmatching[hospital],
                              LAMBDA other : ~Contains(prefs.hospitals[hospital], other))
    IN  [type |-> "list",
         items |-> [i \in DOMAIN unranked |->
                      [type |-> "str", party |-> "hospitals", player |-> hospital,
                       other |-> unranked[i]]]]

check_if_match_is_unacceptable(party, player) ==
    IF party = "residents"
    THEN resident_check_if_match_is_unacceptable(player, TRUE)
    ELSE hospital_check_if_match_is_unacceptable(player)

\* Hospital.check_if_oversubscribed
check_if_oversubscribed(hospital) ==
    IF Len(hmatching[hospital]) > capacity[hospital]
    THEN [type |-> "str", party |-> "hospitals", player |-> hospital]
    ELSE NoIssue

RECURSIVE unacceptable_loop(_, _)
unacceptable_loop(party, players) ==
    IF players = <<>> THEN <<>>
    ELSE LET issue == check_if_match_is_unacceptable(party, Head(players))
             issues == IF issue.type = "list" THEN issue.items
                       ELSE IF issue.type = "str" THEN <<issue>>
                       ELSE <<>>
         IN  issues \o unacceptable_loop(party, Tail(players))

\* HospitalResident._check_for_unacceptable_matches
_check_for_unacceptable_matches(party) ==
    unacceptable_loop(party, Sorted(Game[party]))

RECURSIVE oversubscribed_loop(_)
oversubscribed_loop(players) ==
    IF players = <<>> THEN <<>>
    ELSE LET issue == check_if_oversubscribed(Head(players))
         IN  (IF issue.type = "str" THEN <<issue>> ELSE <<>>)
                \o oversubscribed_loop(Tail(players))

RECURSIVE not_oversubscribed_loop(_)
not_oversubscribed_loop(players) ==
    IF players = <<>> THEN <<>>
    ELSE LET issue == check_if_oversubscribed(Head(players))
         IN  (IF issue.type # "str" THEN <<issue>> ELSE <<>>)
                \o not_oversubscribed_loop(Tail(players))

\* as the check below, collecting the players without an issue
oversubscribed_negated(party) ==
    not_oversubscribed_loop(Sorted(Game[party]))

\* HospitalResident._check_for_oversubscribed_players
_check_for_oversubscribed_players(party) ==
    oversubscribed_loop(Sorted(Game[party]))

validity_outcome(unacceptable_issues, oversubscribed_issues) ==
    IF unacceptable_issues # <<>> \/ oversubscribed_issues # <<>>
    THEN [outcome |-> "MatchingError",
          unacceptable_matches |-> unacceptable_issues,
          oversubscribed_hospitals |-> oversubscribed_issues]
    ELSE [outcome |-> "True", unacceptable_matches |-> <<>>,
          oversubscribed_hospitals |-> <<>>]

\* as the outcome below, without the hospitals' unacceptable matches
validity_residents_only ==
    validity_outcome(_check_for_unacceptable_matches("residents"),
                     _check_for_oversubscribed_players("hospitals"))

\* what check_validity returns or raises in the current state
check_validity_outcome ==
    validity_outcome(_check_for_unacceptable_matches("residents")
                        \o _check_for_unacceptable_matches("hospitals"),
                     _check_for_oversubscribed_players("hospitals"))

\* HospitalResident.check_validity
check_validity ==
    /\ pc \in {"solved", "assigned"}
    /\ validity' = check_validity_outcome
    /\ UNCHANGED <<pc, clean, residents, hospitals, prefs, capacity, given, warnings,
                   optimal, running, remaining, rmatching, hmatching, matching,
                   blocking_pairs, stable>>

\* --------------------------------------- a game with an assigned matching
\* hospital.matching as the residents' matching attributes imply it
held_by(rm, hospital) == Sorted({r \in residents : rm[r] = hospital})

\* A constructed game (clean = false) whose lists have no duplicates and name
\* players of the game only; rankings may be one-sided.
InitCheck ==
    /\ pc = "constructed"
    /\ clean = FALSE
    /\ residents = RawResidents
    /\ hospitals = AllHospitals
    /\ prefs \in [residents : [AllResidents -> Rankings(AllHospitals)],
                  hospitals : [AllHospitals -> Rankings(RawResidents)]]
    /\ \A r \in AllResidents \ residents : prefs.residents[r] = <<>>
    /\ capacity \in [AllHospitals -> 1..MaxCapacity]
    /\ warnings = {}
    /\ given = Game
    /\ Idle

\* The caller sets the players' matching attributes to any assignment.
Assign ==
    /\ pc = "constructed"
    /\ \E rm \in [AllResidents -> AllHospitals \cup {None}] :
          /\ \A r \in AllResidents \ residents : rm[r] = None
          /\ \A r \in residents : rm[r] \in hospitals \cup {None}
          /\ rmatching' = rm
          /\ hmatching' = [h \in AllHospitals |-> held_by(rm, h)]
    /\ pc' = "assigned"
    /\ UNCHANGED <<clean, residents, hospitals, prefs, capacity, given, warnings,
                   optimal, running, remaining, matching, blocking_pairs, stable,
                   validity>>

NextCheck == Assign \/ check_stability \/ check_validity

SpecCheck == InitCheck /\ [][NextCheck]_vars


\* ------------------------------------ claims on the two verdicts (SpecCheck)
\* position of a player in a list without duplicates
Rank(s, x) == CHOOSE i \in DOMAIN s : s[i] = x

Held(h) == Range(hmatching[h])

BlockingSet ==
    {p \in residents \X hospitals :
        LET r == p[1]
            h == p[2]
        IN  /\ h \in Range(prefs.residents[r]) /\ r \in Range(prefs.hospitals[h])
            /\ \/ rmatching[r] = None
               \/ Rank(prefs.residents[r], h) < Rank(prefs.residents[r], rmatching[r])
            /\ \/ Cardinality(Held(h)) < capacity[h]
               \/ \E q \in Held(h) :
                     Rank(prefs.hospitals[h], r) < Rank(prefs.hospitals[h], q)}

UnacceptableSet ==
    {[type |-> "str", party |-> "residents", player |-> r, other |-> rmatching[r]] :
        r \in {q \in residents :
                 rmatching[q] # None /\ rmatching[q] \notin Range(prefs.residents[q])}}
    \cup
    {[type |-> "str", party |-> "hospitals", player |-> p[1], other |-> p[2]] :
        p \in {q \in hospitals \X residents :
                 q[2] \in Held(q[1]) /\ q[2] \notin Range(prefs.hospitals[q[1]])}}

OversubscribedSet == {h \in hospitals : Cardinality(Held(h)) > capacity[h]}

\* C6: check_validity fails iff some player is matched to a player absent from
\* its own list or some hospital holds more residents than its capacity; the
\* one error carries exactly the unacceptable matches and exactly the
\* oversubscribed hospitals; otherwise it returns true.  An unmatched resident
\* is no violation.
ValidityVerdict ==
    (pc = "assigned" /\ validity.outcome # "None")
        => /\ validity.outcome \in {"MatchingError", "True"}
           /\ (validity.outcome = "MatchingError")
                 <=> (UnacceptableSet # {} \/ OversubscribedSet # {})
           /\ validity.outcome = "MatchingError"
                 => /\ Range(validity.unacceptable_matches) = UnacceptableSet
                    /\ Len(validity.oversubscribed_hospitals) = Cardinality(OversubscribedSet)
                    /\ {i.player : i \in Range(validity.oversubscribed_hospitals)}
                          = OversubscribedSet

\* a hospital of capacity 1 holding two residents who rank it and are ranked
\* by it, the other resident-free hospital fine: the error names that hospital
ValidityVerdictWitness ==
    /\ pc = "assigned"
    /\ capacity[1] = 1
    /\ rmatching[1] = 1 /\ rmatching[2] = 1
    /\ \A r \in {1, 2} : Contains(prefs.residents[r], 1) /\ Contains(prefs.hospitals[1], r)
    /\ validity.outcome = "MatchingError"
    /\ validity.unacceptable_matches = <<>>
    /\ validity.oversubscribed_hospitals =
          <<[type |-> "str", party |-> "hospitals", player |-> 1]>>


\* ------------------------------------------------------------------ solve
\* Every ranking reciprocated, no duplicates, every capacity at least one.
WellFormed ==
    /\ \A r \in residents :
          NoDuplicates(prefs.residents[r]) /\ Range(prefs.residents[r]) \subseteq hospitals
    /\ \A h \in hospitals :
          NoDuplicates(prefs.hospitals[h]) /\ Range(prefs.hospitals[h]) \subseteq residents
    /\ \A r \in residents, h \in hospitals :
          Contains(prefs.residents[r], h) <=> Contains(prefs.hospitals[h], r)
    /\ \A h \in hospitals : capacity[h] >= 1

\* A game constructed from a well-formed instance: check_inputs changed nothing
\* and warned of the empty lists.
InitSolve ==
    /\ pc = "constructed"
    /\ clean = FALSE
    /\ residents = AllResidents
    /\ hospitals = AllHospitals
    /\ prefs \in [residents : [AllResidents -> Rankings(AllHospitals)],
                  hospitals : [AllHospitals -> Rankings(AllResidents)]]
    /\ \A r \in residents, h \in hospitals :
          Contains(prefs.residents[r], h) <=> Contains(prefs.hospitals[h], r)
    /\ capacity \in [AllHospitals -> 1..MaxCapacity]
    /\ WellFormed
    /\ warnings = check_inputs([clean |-> clean, residents |-> residents,
                                hospitals |-> hospitals, prefs |-> prefs,
                                capacity |-> capacity, warnings |-> {}]).warnings
    /\ given = [Game EXCEPT !.warnings = {}]
    /\ Idle

\* matching.algorithms.hospital_resident: the orientation selects the algorithm
hospital_resident(opt) ==
    IF opt = "resident" THEN "resident_optimal" ELSE "hospital_optimal"

begin_solve(opt, algorithm) ==
    /\ pc = "constructed"
    /\ optimal' = opt
    /\ running' = algorithm
    /\ remaining' = IF algorithm = "resident_optimal"
                    THEN [r \in AllResidents |->
                            IF r \in residents THEN prefs.residents[r] ELSE <<>>]
                    ELSE [h \in AllHospitals |->
                            IF h \in hospitals THEN prefs.hospitals[h] ELSE <<>>]
    /\ rmatching' = NoMatching.residents
    /\ hmatching' = NoMatching.hospitals
    /\ pc' = "solving"
    /\ UNCHANGED <<clean, residents, hospitals, prefs, capacity, given, warnings,
                   matching, blocking_pairs, stable, validity>>

\* as solve below, running the resident-oriented algorithm whatever optimal is
solve_resident_only(opt) == begin_solve(opt, "resident_optimal")

\* HospitalResident.solve, up to the call of the algorithm
solve(opt) == begin_solve(opt, hospital_resident(opt))

\* the n players of U that the list s ranks highest
best_of(s, U, n) == {p \in U : Cardinality({q \in U : prefers(s, q, p)}) < n}

in_order(s, U) == SelectSeq(s, LAMBDA p : p \in U)

free_residents ==
    {r \in residents : rmatching[r] = None /\ remaining[r] # <<>>}

\* as the lists below, a rejection leaving the list alone
rejected_keep(rejected) == remaining

\* the residents' lists after a round in which the residents of rejected were
\* turned down or displaced by the hospital heading their list: it is removed
rejected_forget(rejected) ==
    [r \in AllResidents |->
        IF r \in rejected THEN remove(remaining[r], Head(remaining[r])) ELSE remaining[r]]

\* Resident-oriented round: the residents of S, free and with a hospital left,
\* propose to the head of their list; every hospital keeps the capacity best
\* of those it holds and those proposing, and rejects the rest.
resident_round(S) ==
    LET proposals(h) == {r \in S : Head(remaining[r]) = h}
        union(h) == Range(hmatching[h]) \cup proposals(h)
        retained(h) == best_of(prefs.hospitals[h], union(h), capacity[h])
        rejected == UNION {union(h) \ retained(h) : h \in hospitals}
    IN  /\ hmatching' = [h \in AllHospitals |->
                           IF h \in hospitals
                           THEN in_order(prefs.hospitals[h], retained(h))
                           ELSE <<>>]
        /\ rmatching' = [r \in AllResidents |->
                           IF \E h \in hospitals : r \in retained(h)
                           THEN CHOOSE h \in hospitals : r \in retained(h)
                           ELSE None]
        /\ remaining' = rejected_forget(rejected)

ResidentPropose ==
    /\ pc = "solving"
    /\ running = "resident_optimal"
    /\ \E S \in SUBSET free_residents : S # {} /\ resident_round(S)
    /\ UNCHANGED <<pc, clean, residents, hospitals, prefs, capacity, given, warnings,
                   optimal, running, matching, blocking_pairs, stable, validity>>

free_hospitals ==
    {h \in hospitals : Len(hmatching[h]) < capacity[h] /\ remaining[h] # <<>>}

\* Hospital-oriented round: the hospitals of S, with a place and a resident
\* left, propose to the head of their list, which leaves the list; every
\* resident holds the best of the offer held and the offers arriving.
hospital_round(S) ==
    LET offers(r) == {h \in S : Head(remaining[h]) = r}
        held(r) == IF rmatching[r] = None THEN {} ELSE {rmatching[r]}
        best(r) == best_of(prefs.residents[r], held(r) \cup offers(r), 1)
        now(r) == IF best(r) = {} THEN None ELSE CHOOSE h \in best(r) : TRUE
    IN  /\ rmatching' = [r \in AllResidents |-> IF r \in residents THEN now(r) ELSE None]
        /\ hmatching' = [h \in AllHospitals |->
                           in_order(prefs.hospitals[h], {r \in residents : now(r) = h})]
        /\ remaining' = [h \in AllHospitals |->
                           IF h \in S THEN Tail(remaining[h]) ELSE remaining[h]]

HospitalPropose ==
    /\ pc = "solving"
    /\ running = "hospital_optimal"
    /\ \E S \in SUBSET free_hospitals : S # {} /\ hospital_round(S)
    /\ UNCHANGED <<pc, clean, residents, hospitals, prefs, capacity, given, warnings,
                   optimal, running, matching, blocking_pairs, stable, validity>>

\* the condition on which the algorithm stops
Finished ==
    /\ running = "resident_optimal" => free_residents = {}
    /\ running = "hospital_optimal" => free_hospitals = {}

\* HospitalResident.solve, from the return of the algorithm: the matching is stored
solve_return ==
    /\ pc = "solving"
    /\ Finished
    /\ matching' = [h \in hospitals |-> hmatching[h]]
    /\ pc' = "solved"
    /\ UNCHANGED <<clean, residents, hospitals, prefs, capacity, given, warnings,
                   optimal, running, remaining, rmatching, hmatching,
                   blocking_pairs, stable, validity>>

NextSolve ==
    \/ \E opt \in {"resident", "hospital"} : solve(opt)
    \/ ResidentPropose
    \/ HospitalPropose
    \/ solve_return
    \/ check_stability
    \/ check_validity

SpecSolve == InitSolve /\ [][NextSolve]_vars

\* the loop of the algorithm runs on while it has a step to take
FairSolve ==
    SpecSolve /\ WF_vars(ResidentPropose) /\ WF_vars(HospitalPropose)
              /\ WF_vars(solve_return)


\* ------------------------------------------------ claims on solve (SpecSolve)
\* C1: for a well-formed instance, check_stability after solve, in either
\* orientation, returns true and records no blocking pair.
SolvedStable ==
    (WellFormed /\ pc = "solved" /\ stable # "None")
        => (stable = "True" /\ blocking_pairs = <<>>)

\* check_stability has run on a hospital-oriented result in which a resident
\* was left out of a full hospital it ranks
SolvedStableWitness ==
    /\ pc = "solved" /\ stable = "True" /\ optimal = "hospital"
    /\ \E r \in residents :
          /\ rmatching[r] = None
          /\ \E h \in hospitals :
                Contains(prefs.residents[r], h) /\ Len(hmatching[h]) = capacity[h]

\* C2: in the matching solve returns, in either orientation, no hospital holds
\* more residents than its capacity, and check_validity reports no
\* oversubscribed hospital.
SolvedWithinCapacity ==
    (pc = "solved")
        => /\ \A h \in hospitals : Len(matching[h]) <= capacity[h]
           /\ validity.oversubscribed_hospitals = <<>>

\* check_validity has run on a result with a full hospital that turned a
\* resident down
SolvedWithinCapacityWitness ==
    /\ pc = "solved" /\ validity.outcome = "True"
    /\ \E h \in hospitals :
          /\ Len(matching[h]) = capacity[h]
          /\ \E r \in residents : Contains(prefs.residents[r], h) /\ rmatching[r] # h

\* the matchings of the instance, as the residents' matching attributes
Assignments ==
    {rm \in [AllResidents -> AllHospitals \cup {None}] :
        \A r \in AllResidents : rm[r] # None => (r \in residents /\ rm[r] \in hospitals)}

holds(rm) == [h \in AllHospitals |-> held_by(rm, h)]

\* the stable matchings of the instance: acceptable pairs, within capacity,
\* and no blocking pair
StableMatchings ==
    {rm \in Assignments :
        /\ \A r \in residents : rm[r] # None => _check_mutual_preference(r, rm[r])
        /\ \A h \in hospitals : Len(holds(rm)[h]) <= capacity[h]
        /\ stability_residents(rm, holds(rm), Sorted(residents)) = <<>>}

\* resident r strictly prefers a to b, unmatched being last
ResidentBetter(r, a, b) ==
    /\ a # None
    /\ b = None \/ Rank(prefs.residents[r], a) < Rank(prefs.residents[r], b)

\* hospital h does strictly better with the residents A than with B: A has a
\* resident that B lacks, for whom h has a free place in B or would give up a
\* resident of B that A lacks
HospitalBetter(h, A, B) ==
    \E a \in A \ B :
        \/ Cardinality(B) < capacity[h]
        \/ \E b \in B \ A : Rank(prefs.hospitals[h], a) < Rank(prefs.hospitals[h], b)

\* C3: the resident-oriented result is at least as good for every resident as
\* any stable matching, and the hospital-oriented result at least as good for
\* every hospital.
SolvedOptimal ==
    (WellFormed /\ pc = "solved")
        => \A rm \in StableMatchings :
             /\ optimal = "resident"
                   => \A r \in residents : ~ResidentBetter(r, rm[r], rmatching[r])
             /\ optimal = "hospital"
                   => \A h \in hospitals :
                         ~HospitalBetter(h, Range(holds(rm)[h]), Range(matching[h]))

\* a hospital-oriented result of an instance that has another stable matching,
\* in which a hospital does strictly worse
SolvedOptimalWitness ==
    /\ pc = "solved" /\ optimal = "hospital"
    /\ \E rm \in StableMatchings : \E h \in hospitals :
          HospitalBetter(h, Range(matching[h]), Range(holds(rm)[h]))

\* C4: the run of the algorithm reaches the state on which it stops: every
\* resident matched or with an empty remaining list (resident-oriented), no
\* hospital with a place and a non-empty remaining list (hospital-oriented).
SolveTerminates == (pc = "solving") ~> Finished

\* the algorithm has stopped after rejections: a proposer's list got shorter
\* and was not used up
SolveTerminatesWitness ==
    /\ pc = "solving" /\ Finished /\ running = "resident_optimal"
    /\ \E r \in residents :
          remaining[r] # <<>> /\ Len(remaining[r]) < Len(prefs.residents[r])


====
